---- MODULE Spec2Model ----
(***************************************************************************)
(* Model of the Zoro product scraper (src/ZORO/main.py): the fetch chain   *)
(* of search_zoro, the challenge/retry loop of fetch_html_with_playwright, *)
(* the structural extraction of parse_product_data, the scoring and        *)
(* capping of search_zoro, and the query loop of main.                     *)
(*                                                                         *)
(* Strings of the program are TLA+ strings.  A page (the html text) is a   *)
(* record: the query whose URL it was loaded for, a piece of raw text that *)
(* stands for everything outside the product markup, and the anchors and   *)
(* title markers of the document in document order.  Anchors do not nest.  *)
(***************************************************************************)
EXTENDS Integers, Sequences, FiniteSets, TLC

\* ---------------------------------------------------------------------
\* Program constants
\* ---------------------------------------------------------------------
BASE_URL == "https://www.zoro.com"

MAX_RESULTS_PER_ITEM == 5

FUZZY_MATCH_THRESHOLD == 50

max_attempts == 6

BackoffAfter == 3

\* line 44: the switch of the rendering proxy (search_zoro never reads it)
USE_SCRAPINGBEE == TRUE

\* ---------------------------------------------------------------------
\* Bounds of the model
\* ---------------------------------------------------------------------
\* number of queries of one run
MaxItems == 3

\* length of the pages built from the full alphabet of units
MaxUnits == 3

\* length of the pages built from product cards only
MaxCards == 11

\* number of cards without title and link on such a page
MaxBare == 1

\* ---------------------------------------------------------------------
\* Generic helpers
\* ---------------------------------------------------------------------
Max2(a, b) == IF a >= b THEN a ELSE b

Min2(a, b) == IF a <= b THEN a ELSE b

Last(s) == s[Len(s)]

\* ---------------------------------------------------------------------
\* Python string operations, on TLA+ strings
\* ---------------------------------------------------------------------
Ch(s, k) == SubSeq(s, k, k)

Uppers == "ABCDEFGHIJKLMNOPQRSTUVWXYZ"

Lowers == "abcdefghijklmnopqrstuvwxyz"

\* position of character c in the table s (of distinct characters), 0 if absent
IndexIn(c, s) ==
  IF \E k \in 1..Len(s) : Ch(s, k) = c
  THEN CHOOSE k \in 1..Len(s) : Ch(s, k) = c
  ELSE 0

LowerCh(c) ==
  LET k == IndexIn(c, Uppers) IN IF k = 0 THEN c ELSE Ch(Lowers, k)

RECURSIVE Lower(_)
\* str.lower()
Lower(s) == IF Len(s) = 0 THEN "" ELSE LowerCh(Ch(s, 1)) \o Lower(SubSeq(s, 2, Len(s)))

\* str.startswith(prefix)
StartsWith(s, p) == Len(s) >= Len(p) /\ SubSeq(s, 1, Len(p)) = p

\* sub in s
Contains(s, sub) ==
  \E k \in 1..(Len(s) - Len(sub) + 1) : SubSeq(s, k, k + Len(sub) - 1) = sub

\* characters in code-point order (those that occur in the model's strings)
CodeOrder == " !#-./0123456789:ABCDEFGHIJKLMNOPQRSTUVWXYZ_abcdefghijklmnopqrstuvwxyz"

Code(c) == IndexIn(c, CodeOrder)

RECURSIVE StrLess(_, _)
\* s < t for Python strings (lexicographic by code point)
StrLess(s, t) ==
  IF Len(t) = 0 THEN FALSE
  ELSE IF Len(s) = 0 THEN TRUE
  ELSE IF Ch(s, 1) = Ch(t, 1) THEN StrLess(SubSeq(s, 2, Len(s)), SubSeq(t, 2, Len(t)))
  ELSE Code(Ch(s, 1)) < Code(Ch(t, 1))

RECURSIVE SplitFrom(_, _, _)
\* str.split(): the maximal runs of non-blank characters, cur is the run being read
SplitFrom(s, k, cur) ==
  IF k > Len(s) THEN (IF cur = "" THEN <<>> ELSE <<cur>>)
  ELSE IF Ch(s, k) = " "
       THEN (IF cur = "" THEN <<>> ELSE <<cur>>) \o SplitFrom(s, k + 1, "")
       ELSE SplitFrom(s, k + 1, cur \o Ch(s, k))

Split(s) == SplitFrom(s, 1, "")

RECURSIVE Join(_)
\* " ".join(tokens)
Join(toks) ==
  IF Len(toks) = 0 THEN ""
  ELSE IF Len(toks) = 1 THEN toks[1]
  ELSE toks[1] \o " " \o Join(Tail(toks))

RECURSIVE SortedSet(_)
\* sorted(S) for a set of strings
SortedSet(S) ==
  IF S = {} THEN <<>>
  ELSE LET m == CHOOSE x \in S : \A y \in S : x = y \/ StrLess(x, y)
       IN <<m>> \o SortedSet(S \ {m})

RECURSIVE InsertSorted(_, _)
InsertSorted(x, srt) ==
  IF Len(srt) = 0 THEN <<x>>
  ELSE IF StrLess(srt[1], x) THEN <<srt[1]>> \o InsertSorted(x, Tail(srt))
  ELSE <<x>> \o srt

RECURSIVE SortedSeq(_)
\* sorted(tokens) for a list of strings (duplicates kept)
SortedSeq(toks) ==
  IF Len(toks) = 0 THEN <<>> ELSE InsertSorted(toks[1], SortedSeq(Tail(toks)))

SeqToSet(s) == {s[k] : k \in 1..Len(s)}

\* ---------------------------------------------------------------------
\* rapidfuzz.fuzz (library): the three similarity measures of best_score.
\* The library compares the strings as given (no preprocessing) and returns
\* a float in [0, 100]: 100 * (lensum - dist) / lensum.  The model keeps
\* the value exactly, as the fraction n / d.
\* ---------------------------------------------------------------------
Frac(n, d) == [n |-> n, d |-> d]

\* max(a, b) on fractions
FracMax(a, b) == IF a.n * b.d >= b.n * a.d THEN a ELSE b

\* the integer part of a fraction
Floor(f) == f.n \div f.d

RECURSIVE LcsRow(_, _, _, _, _)
\* one row of the longest-common-subsequence table: cur[j+1] for j = 0..Len(b)
LcsRow(prev, c, b, j, cur) ==
  IF j > Len(b) THEN cur
  ELSE LET v == IF Ch(b, j) = c THEN prev[j] + 1 ELSE Max2(prev[j + 1], cur[j])
       IN LcsRow(prev, c, b, j + 1, Append(cur, v))

RECURSIVE LcsFrom(_, _, _, _)
\* (the row is computed before the next one is asked for)
LcsFrom(a, b, k, prev) ==
  IF k > Len(a) THEN prev[Len(b) + 1]
  ELSE LET row == LcsRow(prev, Ch(a, k), b, 1, <<0>>)
       IN IF Len(row) = Len(b) + 1 THEN LcsFrom(a, b, k + 1, row) ELSE 0

LcsLen(a, b) == LcsFrom(a, b, 1, [j \in 1..(Len(b) + 1) |-> 0])

\* Indel distance: insertions and deletions that turn a into b
Indel(a, b) == Len(a) + Len(b) - 2 * LcsLen(a, b)

\* normalised similarity for a distance over a total length
NormSim(dist, lensum) ==
  IF lensum = 0 THEN Frac(100, 1) ELSE Frac(100 * (lensum - dist), lensum)

\* fuzz.ratio
ratio(a, b) == NormSim(Indel(a, b), Len(a) + Len(b))

\* fuzz.token_sort_ratio
token_sort_ratio(a, b) == ratio(Join(SortedSeq(Split(a))), Join(SortedSeq(Split(b))))

\* fuzz.token_set_ratio
token_set_ratio(a, b) ==
  LET A == SeqToSet(Split(a))
      B == SeqToSet(Split(b))
      sect == Join(SortedSet(A \cap B))
      dab == Join(SortedSet(A \ B))
      dba == Join(SortedSet(B \ A))
      sl == Len(sect)
      sp == IF sl > 0 THEN 1 ELSE 0
      sect_ab_len == sl + sp + Len(dab)
      sect_ba_len == sl + sp + Len(dba)
      res == NormSim(Indel(dab, dba), sect_ab_len + sect_ba_len)
  IN IF A = {} \/ B = {} THEN Frac(0, 1)
     ELSE IF A \cap B # {} /\ (A \ B = {} \/ B \ A = {}) THEN Frac(100, 1)
     ELSE IF sl = 0 THEN res
     ELSE FracMax(res, FracMax(NormSim(sp + Len(dab), sl + sect_ab_len),
                               NormSim(sp + Len(dba), sl + sect_ba_len)))

\* the windows of the longer string that the shorter one is aligned with
Windows(short, long) ==
  {SubSeq(long, 1, k) : k \in 1..(Len(short) - 1)}
    \cup {SubSeq(long, k, k + Len(short) - 1) : k \in 1..(Len(long) - Len(short) + 1)}
    \cup {SubSeq(long, k, Len(long)) : k \in (Len(long) - Len(short) + 2)..Len(long)}

SetMax(S) == CHOOSE x \in S : \A y \in S : FracMax(x, y) = x

partial_impl(short, long) ==
  SetMax({ratio(short, w) : w \in Windows(short, long)} \cup {Frac(0, 1)})

\* fuzz.partial_ratio
partial_ratio(a, b) ==
  IF Len(a) = 0 /\ Len(b) = 0 THEN Frac(100, 1)
  ELSE IF Len(a) = 0 \/ Len(b) = 0 THEN Frac(0, 1)
  ELSE IF Len(a) < Len(b) THEN partial_impl(a, b)
  ELSE IF Len(b) < Len(a) THEN partial_impl(b, a)
  ELSE FracMax(partial_impl(a, b), partial_impl(b, a))

\* best_score(query, candidate): the int 0, or the largest of the three floats
best_score(query, candidate) ==
  IF query = "" \/ candidate = "" THEN Frac(0, 1)
  ELSE FracMax(token_set_ratio(query, candidate),
               FracMax(token_sort_ratio(query, candidate),
                       partial_ratio(query, candidate)))

\* ---------------------------------------------------------------------
\* Pages.  html is None or a str; a str is the raw text outside the product
\* markup (raw) and the units of the document in document order.  A unit is
\* an anchor, or a title marker that has no anchor ancestor (tag "title").
\*   card    the anchor carries data-test='productCard'
\*   tmarks  number of [data-test='productCardTitle'] nodes in (or, for an
\*           orphan marker, at) the unit
\*   ttext   text of the unit's title tag (productCardTitle / product-title)
\*   aria    aria-label of the anchor;  text  all text in the anchor
\*   q       the query whose search URL the page was loaded from (0: none)
\* ---------------------------------------------------------------------
NoneHtml == [kind |-> "none", q |-> 0, raw |-> "", units |-> <<>>]

Html(q, raw, units) == [kind |-> "str", q |-> q, raw |-> raw, units |-> units]

\* bool(html): None and "" are false
Truthy(page) == page.kind = "str" /\ ~(page.raw = "" /\ page.units = <<>>)

Unit(tag, card, tmarks, href, ttext, aria, text, sku_text, img) ==
  [tag |-> tag, card |-> card, tmarks |-> tmarks, href |-> href, ttext |-> ttext,
   aria |-> aria, text |-> text, price |-> "", sku_text |-> sku_text, brand |-> "",
   img |-> img]

\* ---------------------------------------------------------------------
\* parse_product_data
\* ---------------------------------------------------------------------
RECURSIVE StripLeft(_)
StripLeft(s) == IF Len(s) > 0 /\ Ch(s, 1) = " " THEN StripLeft(SubSeq(s, 2, Len(s))) ELSE s

RECURSIVE StripRight(_)
StripRight(s) ==
  IF Len(s) > 0 /\ Ch(s, Len(s)) = " " THEN StripRight(SubSeq(s, 1, Len(s) - 1)) ELSE s

\* str.strip()
Strip(s) == StripLeft(StripRight(s))

RECURSIVE Remove(_, _)
\* str.replace(pat, "")
Remove(s, pat) ==
  IF Len(s) < Len(pat) \/ Len(s) = 0 THEN s
  ELSE IF StartsWith(s, pat) THEN Remove(SubSeq(s, Len(pat) + 1, Len(s)), pat)
  ELSE Ch(s, 1) \o Remove(SubSeq(s, 2, Len(s)), pat)

\* lines 401-414: the title sub-rules, tried until one yields text.  The
\* fourth sub-rule reads the text of a descendant of a card whose whole
\* text is empty, so it yields nothing.
title_of(card) ==
  IF card.ttext # "" THEN card.ttext
  ELSE IF card.aria # "" THEN card.aria
  ELSE card.text

\* lines 416-417
url_of(href) ==
  IF StartsWith(href, "http") THEN href
  ELSE IF href # "" THEN BASE_URL \o href
  ELSE ""

\* lines 424-429
sku_of(card) == Strip(Remove(Remove(card.sku_text, "SKU"), "#"))

\* lines 449-459: the dictionary appended for one card
raw_of(card, card_source) ==
  [title |-> title_of(card), url |-> url_of(card.href), price |-> card.price,
   sku |-> sku_of(card), brand |-> card.brand, image_url |-> card.img,
   source |-> card_source]

IsAnchor(u) == u.tag = "a"

\* soup.select("a[data-test='productCard']")
SelectCards(units) == LET T(u) == IsAnchor(u) /\ u.card IN SelectSeq(units, T)

RECURSIVE TitleNodes(_, _)
\* soup.select("[data-test='productCardTitle']"): one entry per title node,
\* holding the index of its anchor ancestor (0 when it has none)
TitleNodes(units, k) ==
  IF k > Len(units) THEN <<>>
  ELSE [n \in 1..units[k].tmarks |-> IF IsAnchor(units[k]) THEN k ELSE 0]
         \o TitleNodes(units, k + 1)

RECURSIVE FallbackLoop(_, _, _, _)
\* lines 373-379
FallbackLoop(units, nodes, seen_ids, fallback_cards) ==
  IF Len(nodes) = 0 THEN fallback_cards
  ELSE LET anchor == nodes[1]
       IN IF anchor # 0 /\ anchor \notin seen_ids
          THEN FallbackLoop(units, Tail(nodes), seen_ids \cup {anchor},
                            Append(fallback_cards, units[anchor]))
          ELSE FallbackLoop(units, Tail(nodes), seen_ids, fallback_cards)

SelectByTitle(units) == FallbackLoop(units, TitleNodes(units, 1), {}, <<>>)

\* soup.select("a[href*='/i/']")
SelectGeneric(units) ==
  LET T(u) == IsAnchor(u) /\ Contains(u.href, "/i/") IN SelectSeq(units, T)

\* lines 367-396 with the generic anchors consulted before the title markers
select_cards_swapped(units) ==
  IF SelectCards(units) # <<>>
    THEN [cards |-> SelectCards(units), card_source |-> "data-test-productCard"]
  ELSE IF SelectGeneric(units) # <<>>
    THEN [cards |-> SelectGeneric(units), card_source |-> "generic-anchor"]
  ELSE IF SelectByTitle(units) # <<>>
    THEN [cards |-> SelectByTitle(units), card_source |-> "productCardTitle"]
  ELSE [cards |-> <<>>, card_source |-> "none"]

\* lines 367-396: the cards and the rule that supplied them
select_cards(units) ==
  IF SelectCards(units) # <<>>
    THEN [cards |-> SelectCards(units), card_source |-> "data-test-productCard"]
  ELSE IF SelectByTitle(units) # <<>>
    THEN [cards |-> SelectByTitle(units), card_source |-> "productCardTitle"]
  ELSE IF SelectGeneric(units) # <<>>
    THEN [cards |-> SelectGeneric(units), card_source |-> "generic-anchor"]
  ELSE [cards |-> <<>>, card_source |-> "none"]

\* line 446 with the test left out
no_title_no_url_kept(rec) == FALSE

\* line 446: not title and not url
no_title_no_url(rec) == rec.title = "" /\ rec.url = ""

RECURSIVE parse_loop(_, _, _, _)
\* lines 398-466: a card without title and url is skipped by continue, which
\* also skips the length test; the test follows every append
parse_loop(cards, card_source, acc, max_results) ==
  IF Len(cards) = 0 THEN acc
  ELSE LET rec == raw_of(cards[1], card_source)
       IN IF no_title_no_url(rec)
          THEN parse_loop(Tail(cards), card_source, acc, max_results)
          ELSE IF Len(acc) + 1 >= max_results
               THEN Append(acc, rec)
               ELSE parse_loop(Tail(cards), card_source, Append(acc, rec), max_results)

\* parse_product_data(html, max_results)
parse_product_data(page, max_results) ==
  LET sel == select_cards(page.units)
  IN parse_loop(sel.cards, sel.card_source, <<>>, max_results)

\* ---------------------------------------------------------------------
\* The inputs of the model: queries, units and documents
\* ---------------------------------------------------------------------
\* item names as read_excel_items returns them: trimmed, non-empty and
\* pairwise different when lower-cased
QueryPool == <<"Hex Bolt", "Widget XYZ", "hex-bolt", "Pipe Cap", "M6 Nut", "Oil Can">>

Items == SubSeq(QueryPool, 1, MaxItems)

CardHex == Unit("a", TRUE, 1, "/i/G1", "Hex Bolt Zinc", "", "Hex Bolt Zinc SKU# G1", "SKU# G1", "http://img/1")

CardImp == Unit("a", TRUE, 1, "http://z.com/i/G2", "Impact Driver", "", "Impact Driver", "", "")

CardBare == Unit("a", TRUE, 0, "", "", "", "", "", "")

CardLink == Unit("a", TRUE, 0, "/i/G4", "", "", "", "", "")

TitleAnchor == Unit("a", FALSE, 2, "/p/9", "Hex Bolt", "", "Hex Bolt", "", "")

OrphanTitle == Unit("title", FALSE, 1, "", "Pipe Cap", "", "Pipe Cap", "", "")

GenericAnchor == Unit("a", FALSE, 0, "/i/G3", "", "Widget XYZ", "", "", "")

PlainAnchor == Unit("a", FALSE, 0, "/about", "", "", "About", "", "")

\* the units of the short pages
UnitKinds == {CardHex, CardImp, CardBare, CardLink, TitleAnchor, OrphanTitle,
              GenericAnchor, PlainAnchor}

\* the units of the long pages: product cards only
CardKinds == {CardHex, CardImp, CardBare}

\* the pages the site (or the browser) can hand to one query of a run, as
\* [raw, units]: an empty document, a challenge page, a result page, a page
\* that quotes the card selector, and a result page carrying the marker
Docs == {
  [raw |-> "<html>", units |-> <<>>],
  [raw |-> "Data-CFAsync", units |-> <<>>],
  [raw |-> "<html>", units |-> <<CardHex, CardImp>>],
  [raw |-> "[data-test=\"productCard\"]", units |-> <<GenericAnchor>>],
  [raw |-> "__cf_chl_jschl_tk__", units |-> <<CardHex>>]
}

BlankDoc == [raw |-> "<html>", units |-> <<>>]

\* every title the units of the model can yield, and every item name
Titles == {title_of(u) : u \in UnitKinds}

\* best_score on the queries and titles of the pages, computed once; the
\* records of a run keep the integer part of match_score, which decides the
\* comparison of line 518 with the integer threshold in the same way
ScoreTable == [q \in SeqToSet(QueryPool) |-> [t \in Titles |-> Floor(best_score(q, t))]]

\* ---------------------------------------------------------------------
\* search_zoro, lines 487-541: scoring, threshold and cap
\* ---------------------------------------------------------------------
ProductResult(search_term, r, score) ==
  [search_term |-> search_term, title |-> r.title, url |-> r.url,
   price |-> r.price, sku |-> r.sku, brand |-> r.brand,
   image_url |-> r.image_url, image_path |-> "", match_score |-> score]

\* line 518
below_threshold(score) == score < FUZZY_MATCH_THRESHOLD

\* line 535, with the test one element late
cap_reached_late(n) == n > MAX_RESULTS_PER_ITEM

\* line 535
cap_reached(n) == n >= MAX_RESULTS_PER_ITEM

RECURSIVE rank_loop(_, _, _)
\* lines 505-536
rank_loop(term, raw_results, acc) ==
  IF Len(raw_results) = 0 THEN acc
  ELSE LET raw == raw_results[1]
           match_score == ScoreTable[term][raw.title]
       IN IF raw.title = "" /\ raw.url = ""
          THEN rank_loop(term, Tail(raw_results), acc)
          ELSE IF below_threshold(match_score)
               THEN rank_loop(term, Tail(raw_results), acc)
               ELSE IF cap_reached(Len(acc) + 1)
                    THEN Append(acc, ProductResult(term, raw, match_score))
                    ELSE rank_loop(term, Tail(raw_results),
                                   Append(acc, ProductResult(term, raw, match_score)))

\* line 487 asking parse_product_data for no more records than the cap
search_results_window(term, page) ==
  IF ~Truthy(page) THEN <<>>
  ELSE rank_loop(term, parse_product_data(page, MAX_RESULTS_PER_ITEM), <<>>)

\* lines 483-541: what search_zoro returns for the html it settled on
search_results(term, page) ==
  IF ~Truthy(page) THEN <<>>
  ELSE rank_loop(term, parse_product_data(page, MAX_RESULTS_PER_ITEM * 2), <<>>)

\* ---------------------------------------------------------------------
\* slugify and the image file name (main, lines 651-655)
\* ---------------------------------------------------------------------
SlugChars == "abcdefghijklmnopqrstuvwxyz0123456789"

RECURSIVE SubNonSlug(_, _)
\* re.sub(r"[^a-z0-9]+", "_", value); inrun: the previous character was replaced
SubNonSlug(s, inrun) ==
  IF Len(s) = 0 THEN ""
  ELSE IF IndexIn(Ch(s, 1), SlugChars) # 0
       THEN Ch(s, 1) \o SubNonSlug(SubSeq(s, 2, Len(s)), FALSE)
       ELSE (IF inrun THEN "" ELSE "_") \o SubNonSlug(SubSeq(s, 2, Len(s)), TRUE)

RECURSIVE StripUnderscore(_)
StripUnderscore(s) ==
  IF Len(s) > 0 /\ Ch(s, 1) = "_" THEN StripUnderscore(SubSeq(s, 2, Len(s)))
  ELSE IF Len(s) > 0 /\ Ch(s, Len(s)) = "_" THEN StripUnderscore(SubSeq(s, 1, Len(s) - 1))
  ELSE s

\* slugify(value)
slugify(value) ==
  LET v == StripUnderscore(SubNonSlug(Lower(Strip(value)), FALSE))
  IN IF v = "" THEN "item" ELSE v

\* str(idx) for a rank
StrOfInt(n) == Ch("0123456789", n + 1)

\* lines 652-655
base_name_of(term, prod, idx) ==
  IF prod.sku # ""
  THEN slugify(term) \o "_" \o slugify(prod.sku) \o "_" \o StrOfInt(idx)
  ELSE slugify(term) \o "_" \o StrOfInt(idx)

\* line 556
file_path_of(base_name) == "zoro_images/" \o base_name \o ".jpg"

\* ---------------------------------------------------------------------
\* State
\* ---------------------------------------------------------------------
VARIABLES
  pc,                   \* position of the run
  i,                    \* 1-based index of item_name in items (main's for loop)
  all_results,          \* main: the rows collected so far
  consecutive_failures, \* main
  results,              \* main: what search_zoro returned for the current item
  ridx,                 \* main: idx of the enumerate over results
  html,                 \* the html local of fetch_html_with_playwright / search_zoro
  attempt,              \* fetch_html_with_playwright: loop variable
  pw,                   \* the four module globals _playwright_*: set or None
  sessions,             \* persistent browser contexts currently open
  loaded,               \* query whose search URL the persistent page shows (0: blank)
  files,                \* paths that exist in the image directory
  saved,                \* outcome of save_to_excel: "no", "ok" or "failed"
  exc,                  \* an exception is propagating out of the query loop
  calls,                \* backends search_zoro has called for the current item
  pwret,                \* what fetch_html_with_playwright returned for the current item
  g,                    \* what the current fetch_html_with_playwright call has done
  h,                    \* what main has done: cooldowns, pauses, shutdowns, and
                        \* whether the last download_image call issued a GET
  arg,                  \* arguments of a direct call of a pure function
  out                   \* result of that call

vars == <<pc, i, all_results, consecutive_failures, results, ridx, html, attempt, pw,
          sessions, loaded, files, saved, exc, calls, pwret, g, h, arg, out>>

mainVars == <<i, all_results, consecutive_failures, results, ridx, files, saved, h>>

pureVars == <<arg, out>>

PwNone == [manager |-> FALSE, context |-> FALSE, page |-> FALSE, timeout_error |-> FALSE]

PwSet == [manager |-> TRUE, context |-> TRUE, page |-> TRUE, timeout_error |-> TRUE]

\* nothing done yet in a call of fetch_html_with_playwright
G0 == [gotos |-> 0, reloads |-> 0, nchal |-> 0, dirty |-> FALSE, cool10 |-> 0,
       kept |-> NoneHtml, capErr |-> FALSE, capAt |-> 0, clean |-> FALSE,
       ready |-> FALSE]

H0 == [cool60 |-> 0, shutdowns |-> 0, nocontent |-> FALSE, paces |-> 0,
       imgfetch |-> FALSE]

NoArg == [item_name |-> "", max_results |-> 0, candidate |-> "", href |-> ""]

Init ==
  /\ pc = "loop"
  /\ i = 1
  /\ all_results = <<>>
  /\ consecutive_failures = 0
  /\ results = <<>>
  /\ ridx = 0
  /\ html = NoneHtml
  /\ attempt = 0
  /\ pw = PwNone
  /\ sessions = 0
  /\ loaded = 0
  /\ files = {}
  /\ saved = "no"
  /\ exc = FALSE
  /\ calls = <<>>
  /\ pwret = NoneHtml
  /\ g = G0
  /\ h = H0
  /\ arg = NoArg
  /\ out = <<>>

item_name == Items[i]

\* ---------------------------------------------------------------------
\* _ensure_playwright_page, called at the start of fetch_html_with_playwright
\* for the next item of main's loop (lines 629-631, 476-478, 273-279)
\* ---------------------------------------------------------------------
\* page is None or _playwright_timeout_error is None: return None (lines 274-275)
EnterFetch(newpw) ==
  /\ pw' = newpw
  /\ html' = NoneHtml
  /\ attempt' = 1
  /\ calls' = <<"playwright">>
  /\ g' = G0
  /\ pwret' = NoneHtml
  /\ results' = <<>>
  /\ ridx' = 0
  /\ pc' = IF newpw.page /\ newpw.timeout_error THEN "pw_load" ELSE "pw_return"
  /\ UNCHANGED <<i, all_results, consecutive_failures, loaded, files, saved, exc, h,
                 arg, out>>

\* line 173: the page exists and is reused
EnsureReuse ==
  /\ pc = "loop" /\ i <= Len(Items)
  /\ pw.page
  /\ sessions' = sessions
  /\ EnterFetch(pw)

\* lines 176-179: playwright cannot be imported
EnsureImportError ==
  /\ pc = "loop" /\ i <= Len(Items)
  /\ ~pw.page
  /\ sessions' = sessions
  /\ EnterFetch(pw)

\* lines 187-214: manager, context and page are created
EnsureStarted ==
  /\ pc = "loop" /\ i <= Len(Items)
  /\ ~pw.page
  /\ sessions' = sessions + 1
  /\ EnterFetch(PwSet)

\* lines 215-230: a step of the initialisation raises; what was opened is
\* closed and the globals are reset.  The step that raised came before the
\* launch of the context or after it, and in the second case the close of
\* line 218 succeeds or raises (the exception is dropped, the context
\* stays open).
EnsureFailed ==
  /\ pc = "loop" /\ i <= Len(Items)
  /\ ~pw.page
  /\ sessions' \in {sessions, sessions + 1}
  /\ EnterFetch(PwNone)

_ensure_playwright_page == EnsureReuse \/ EnsureImportError \/ EnsureStarted \/ EnsureFailed

\* ---------------------------------------------------------------------
\* fetch_html_with_playwright, lines 281-351
\* ---------------------------------------------------------------------
\* what page.content() can return for the page that is loaded
Contents(q) == {Html(q, d.raw, d.units) : d \in (IF q = 0 THEN {BlankDoc} ELSE Docs)}

\* lines 299-303
challenge_present(content) ==
  /\ Truthy(content)
  /\ \/ Contains(Lower(content.raw), "data-cfasync")
     \/ Contains(Lower(content.raw), "__cf_chl_jschl_tk__")

\* lines 329-331
html_contains_cards(content) ==
  Truthy(content) /\ Contains(content.raw, "[data-test=\"productCard\"]")

\* line 281 with a range that is one attempt too long
NextAttemptLong ==
  /\ attempt' = attempt + 1
  /\ pc' = IF attempt + 1 > max_attempts + 1 THEN "pw_return" ELSE "pw_load"

\* continue / end of a loop body: the next attempt, or the end of the loop
NextAttempt ==
  /\ attempt' = attempt + 1
  /\ pc' = IF attempt + 1 > max_attempts THEN "pw_return" ELSE "pw_load"

\* lines 283-286 navigating afresh on every attempt
load_kind_goto(att) == "goto"

\* lines 283-286
load_kind(att) == IF att = 1 THEN "goto" ELSE "reload"

\* lines 282-288: goto on the first attempt, reload afterwards; a load that
\* raises is skipped by continue.  A goto that raises may or may not have
\* left the page on the new URL.
PwLoad ==
  /\ pc = "pw_load"
  /\ g' = IF load_kind(attempt) = "goto"
          THEN [g EXCEPT !.gotos = @ + 1]
          ELSE [g EXCEPT !.reloads = @ + 1]
  /\ \/ /\ loaded' = IF load_kind(attempt) = "goto" THEN i ELSE loaded
        /\ pc' = "pw_check"
        /\ attempt' = attempt
     \/ /\ loaded' \in (IF load_kind(attempt) = "goto" THEN {loaded, i} ELSE {loaded})
        /\ NextAttempt
  /\ UNCHANGED <<mainVars, pureVars, html, pw, sessions, exc, calls, pwret>>

\* lines 290-309: idle, capture the content, look for a challenge marker
PwCheck ==
  /\ pc = "pw_check"
  /\ \/ \* page.content() raises: html = None
        /\ html' = NoneHtml
        /\ g' = [g EXCEPT !.capErr = TRUE, !.capAt = 0, !.clean = FALSE]
        /\ pc' = "pw_wait"
        /\ attempt' = attempt
     \/ \E content \in Contents(loaded) :
          IF challenge_present(content)
          THEN /\ html' = NoneHtml
               /\ g' = [g EXCEPT !.nchal = @ + 1, !.cool10 = @ + 1, !.kept = NoneHtml,
                                 !.capErr = FALSE, !.capAt = 0, !.clean = FALSE]
               /\ NextAttempt
          ELSE /\ html' = content
               /\ g' = [g EXCEPT !.kept = content, !.capErr = FALSE, !.capAt = attempt,
                                 !.clean = TRUE]
               /\ pc' = "pw_wait"
               /\ attempt' = attempt
  /\ UNCHANGED <<mainVars, pureVars, pw, sessions, loaded, exc, calls, pwret>>

\* lines 311-344 once the selector waits are over: capture again, keep the
\* old html when that raises, then break or pause and go on
AfterWait(product_card_visible, product_title_visible) ==
  /\ \E recapture \in Contents(loaded) \cup {NoneHtml} :
       LET newhtml == IF recapture = NoneHtml THEN html ELSE recapture
       IN /\ html' = newhtml
          /\ IF product_card_visible \/ product_title_visible \/ html_contains_cards(newhtml)
             THEN /\ g' = [g EXCEPT !.ready = TRUE,
                                    !.kept = IF recapture = NoneHtml THEN @ ELSE recapture,
                                    !.capErr = IF recapture = NoneHtml THEN @ ELSE FALSE,
                                    !.capAt = IF recapture = NoneHtml THEN @ ELSE attempt]
                  /\ pc' = "pw_return"
                  /\ attempt' = attempt
             ELSE /\ g' = [g EXCEPT !.dirty = TRUE,
                                    !.kept = IF recapture = NoneHtml THEN @ ELSE recapture,
                                    !.capErr = IF recapture = NoneHtml THEN @ ELSE FALSE,
                                    !.capAt = IF recapture = NoneHtml THEN @ ELSE attempt]
                  /\ NextAttempt
  /\ UNCHANGED <<mainVars, pureVars, pw, sessions, loaded, exc, calls, pwret>>

\* lines 314-316: the product card becomes visible
PwWaitCard == pc = "pw_wait" /\ AfterWait(TRUE, FALSE)

\* lines 317-320: the first wait times out, the card title becomes visible
PwWaitTitle == pc = "pw_wait" /\ AfterWait(FALSE, TRUE)

\* lines 321-322: both waits time out
PwWaitTimeout == pc = "pw_wait" /\ AfterWait(FALSE, FALSE)

\* lines 314-322: a wait raises something that is not the timeout error;
\* nothing in fetch_html_with_playwright or search_zoro catches it, and
\* their locals are gone when it reaches main
PwWaitError ==
  /\ pc = "pw_wait"
  /\ exc' = TRUE
  /\ pc' = "finally"
  /\ html' = NoneHtml
  /\ attempt' = 0
  /\ g' = G0
  /\ UNCHANGED <<mainVars, pureVars, pw, sessions, loaded, calls, pwret>>

fetch_html_with_playwright ==
  PwLoad \/ PwCheck \/ PwWaitCard \/ PwWaitTitle \/ PwWaitTimeout \/ PwWaitError

\* ---------------------------------------------------------------------
\* search_zoro, lines 478-485: the fetch chain
\* ---------------------------------------------------------------------
EmptyHtml == Html(0, "", <<>>)

\* what fetch_html_with_requests can return: the body of the response (which
\* may be empty), or None after a requests.RequestException (lines 259-267)
RequestsOutcomes(q) == Contents(q) \cup {EmptyHtml, NoneHtml}

\* line 479 without the test
NeedsFallbackAlways(content) == TRUE

\* line 479: the plain fetch is needed
NeedsFallback(content) == ~Truthy(content)

\* the html returned by fetch_html_with_playwright is used, or the plain
\* fetch is made
SearchFetch ==
  /\ pc = "pw_return"
  /\ pwret' = html
  /\ IF NeedsFallback(html)
     THEN /\ calls' = Append(calls, "requests")
          /\ html' \in RequestsOutcomes(i)
     ELSE /\ calls' = calls
          /\ html' = html
  /\ attempt' = 0
  /\ g' = G0
  /\ pc' = "searched"
  /\ UNCHANGED <<mainVars, pureVars, pw, sessions, loaded, exc>>

\* ---------------------------------------------------------------------
\* main, lines 629-682
\* ---------------------------------------------------------------------
\* lines 635-645 with the title left empty
NotFoundBlank(search_term) ==
  [search_term |-> search_term, title |-> "", url |-> "", price |-> "",
   sku |-> "", brand |-> "", image_url |-> "", image_path |-> "", match_score |-> 0]

\* lines 635-645: the sentinel row
NotFound(search_term) ==
  [search_term |-> search_term, title |-> "Not found", url |-> "", price |-> "",
   sku |-> "", brand |-> "", image_url |-> "", image_path |-> "", match_score |-> 0]

\* lines 631-650: search_zoro returns; no results gives the sentinel row
MainAfterSearch ==
  /\ pc = "searched"
  /\ LET res == search_results(item_name, html)
     IN /\ results' = res
        /\ IF res = <<>>
           THEN /\ all_results' = Append(all_results, NotFound(item_name))
                /\ consecutive_failures' = consecutive_failures + 1
                /\ ridx' = 0
                /\ pc' = "tail"
           ELSE /\ all_results' = all_results
                /\ consecutive_failures' = 0
                /\ ridx' = 1
                /\ pc' = "image"
  /\ h' = [h EXCEPT !.nocontent = ~Truthy(html)]
  /\ html' = NoneHtml
  /\ pwret' = NoneHtml
  /\ UNCHANGED <<i, files, saved, pureVars, attempt, pw, sessions, loaded, exc, calls, g>>

product == results[ridx]

file_path == file_path_of(base_name_of(item_name, product, ridx))

\* lines 660-665: the row is completed and appended
AppendProduct(image_path) ==
  /\ all_results' = Append(all_results, [product EXCEPT !.image_path = image_path])
  /\ ridx' = ridx + 1
  /\ pc' = IF ridx = Len(results) THEN "tail" ELSE "image"
  /\ UNCHANGED <<i, consecutive_failures, results, saved, pureVars, html, attempt, pw,
                 sessions, loaded, exc, calls, pwret, g>>

\* an exception leaves download_image and main's loop
RaiseFromImage ==
  /\ exc' = TRUE
  /\ pc' = "finally"
  /\ UNCHANGED <<i, all_results, consecutive_failures, results, ridx, saved, pureVars,
                 html, attempt, pw, sessions, loaded, calls, pwret, g>>

\* line 561: whether the call of download_image issued session.get
Fetched(b) == h' = [h EXCEPT !.imgfetch = b]

\* lines 551-552
ImageNoUrl ==
  /\ pc = "image" /\ product.image_url = ""
  /\ files' = files
  /\ Fetched(FALSE)
  /\ AppendProduct("")

\* line 554: the directory cannot be created (it exists once it holds a file)
ImageMkdirError ==
  /\ pc = "image" /\ product.image_url # ""
  /\ files = {}
  /\ files' = files
  /\ Fetched(FALSE)
  /\ RaiseFromImage

\* lines 556-558
ImageExists ==
  /\ pc = "image" /\ product.image_url # ""
  /\ file_path \in files
  /\ files' = files
  /\ Fetched(FALSE)
  /\ AppendProduct(file_path)

\* lines 560-566
ImageDownloaded ==
  /\ pc = "image" /\ product.image_url # ""
  /\ file_path \notin files
  /\ files' = files \cup {file_path}
  /\ Fetched(TRUE)
  /\ AppendProduct(file_path)

\* lines 567-570: a requests.RequestException, before or while writing
ImageRequestError ==
  /\ pc = "image" /\ product.image_url # ""
  /\ file_path \notin files
  /\ files' = files
  /\ Fetched(TRUE)
  /\ AppendProduct("")

\* lines 563-565: open or write raises OSError, which is no RequestException;
\* a file that was opened stays
ImageWriteError ==
  /\ pc = "image" /\ product.image_url # ""
  /\ file_path \notin files
  /\ files' \in {files, files \cup {file_path}}
  /\ Fetched(TRUE)
  /\ RaiseFromImage

download_image ==
  \/ ImageNoUrl \/ ImageMkdirError \/ ImageExists \/ ImageDownloaded
  \/ ImageRequestError \/ ImageWriteError

\* line 667 with the comparison off by one
backoff_due_late(n) == n > BackoffAfter

\* line 667
backoff_due(n) == n >= BackoffAfter

\* lines 672-674 with the pause skipped after a back-off
pacing_delays_else(backed_off) == IF backed_off THEN 0 ELSE 1

\* lines 672-674: the pauses at the end of an iteration of main's loop
pacing_delays(backed_off) == 1

\* lines 667-674: the back-off after three failures in a row, then the pause
MainTail ==
  /\ pc = "tail"
  /\ IF backoff_due(consecutive_failures)
     THEN /\ h' = [h EXCEPT !.cool60 = @ + 1, !.paces = @ + pacing_delays(TRUE),
                             !.imgfetch = FALSE]
          /\ consecutive_failures' = 0
     ELSE /\ h' = [h EXCEPT !.paces = @ + pacing_delays(FALSE), !.imgfetch = FALSE]
          /\ consecutive_failures' = consecutive_failures
  /\ i' = i + 1
  /\ calls' = <<>>
  /\ pc' = "loop"
  /\ UNCHANGED <<all_results, results, ridx, files, saved, pureVars, html, attempt, pw,
                 sessions, loaded, exc, pwret, g>>

\* lines 676-680: the loop is over; a failure to save is printed
MainSave ==
  /\ pc = "loop" /\ i > Len(Items)
  /\ saved' \in {"ok", "failed"}
  /\ pc' = "finally"
  /\ UNCHANGED <<i, all_results, consecutive_failures, results, ridx, files, h, pureVars,
                 html, attempt, pw, sessions, loaded, exc, calls, pwret, g>>

\* lines 254-257 with only the manager and the context reset
globals_after_shutdown_partial(cur) == [cur EXCEPT !.manager = FALSE, !.context = FALSE]

\* lines 254-257: the four globals after shutdown_playwright
globals_after_shutdown(cur) == PwNone

\* lines 681-682 and 233-257: shutdown_playwright.  The context held in
\* the global is closed, unless the close raises (lines 243-247); the
\* globals are reset either way.
MainFinally ==
  /\ pc = "finally"
  /\ pw' = globals_after_shutdown(pw)
  /\ sessions' \in (IF pw.context THEN {sessions - 1, sessions} ELSE {sessions})
  /\ h' = [h EXCEPT !.shutdowns = @ + 1]
  /\ pc' = IF exc THEN "aborted" ELSE "done"
  /\ UNCHANGED <<i, all_results, consecutive_failures, results, ridx, files, saved,
                 pureVars, html, attempt, loaded, exc, calls, pwret, g>>

Next ==
  \/ _ensure_playwright_page
  \/ fetch_html_with_playwright
  \/ SearchFetch
  \/ MainAfterSearch
  \/ download_image
  \/ MainTail
  \/ MainSave
  \/ MainFinally

Spec == Init /\ [][Next]_vars

\* ---------------------------------------------------------------------
\* Direct calls of parse_product_data and of the scoring part of search_zoro
\* on every page up to the bounds
\* ---------------------------------------------------------------------
PageOf(units) == Html(1, "<html>", units)

ShortPages == UNION {[1..n -> UnitKinds] : n \in 0..MaxUnits}

Bares(units) == Cardinality({k \in DOMAIN units : units[k] = CardBare})

LongPages ==
  UNION {{units \in [1..n -> CardKinds] : Bares(units) <= MaxBare} :
         n \in (MaxUnits + 1)..MaxCards}

MaxResultsArgs == {0, 1, 2, MAX_RESULTS_PER_ITEM * 2}

Idle ==
  /\ i = 1
  /\ all_results = <<>>
  /\ consecutive_failures = 0
  /\ ridx = 0
  /\ attempt = 0
  /\ pw = PwNone
  /\ sessions = 0
  /\ loaded = 0
  /\ files = {}
  /\ saved = "no"
  /\ exc = FALSE
  /\ calls = <<>>
  /\ pwret = NoneHtml
  /\ g = G0
  /\ h = H0

InitSearch ==
  /\ Idle
  /\ results = <<>>
  /\ out = <<>>
  /\ \/ /\ pc = "s_parse"
        /\ \E units \in ShortPages : html = PageOf(units)
        /\ \E m \in MaxResultsArgs : arg = [NoArg EXCEPT !.max_results = m]
     \/ /\ pc = "s_search"
        /\ \E units \in ShortPages : html = PageOf(units)
        /\ \E q \in SeqToSet(Items) : arg = [NoArg EXCEPT !.item_name = q]
     \/ /\ pc = "s_search"
        /\ \E units \in LongPages : html = PageOf(units)
        /\ arg = [NoArg EXCEPT !.item_name = Items[1]]

\* parse_product_data(html, max_results)
ParseCall ==
  /\ pc = "s_parse"
  /\ out' = parse_product_data(html, arg.max_results)
  /\ pc' = "s_parsed"
  /\ UNCHANGED <<mainVars, html, attempt, pw, sessions, loaded, exc, calls, pwret, g, arg>>

\* search_zoro(item_name, session) from the html it has fetched
SearchCall ==
  /\ pc = "s_search"
  /\ results' = search_results(arg.item_name, html)
  /\ pc' = "s_searched"
  /\ UNCHANGED <<i, all_results, consecutive_failures, ridx, files, saved, h, html,
                 attempt, pw, sessions, loaded, exc, calls, pwret, g, arg, out>>

NextSearch == ParseCall \/ SearchCall

SpecSearch == InitSearch /\ [][NextSearch]_vars

\* ---------------------------------------------------------------------
\* Direct calls of best_score and of the url rule of parse_product_data
\* ---------------------------------------------------------------------
\* queries and titles, with variants in case, punctuation and spacing
ScoreStrings ==
  {"", "Hex Bolt", "hex bolt", "HEX-BOLT!!", "Bolt Hex", "bolt", "BOLT", "hexbolts",
   "Hex Bolt Zinc", "Widget XYZ", "M6 Nut"}

\* href attributes of anchors
Hrefs ==
  {"", "/i/G1", "i/G2", "http://z.com/i/G3", "https://z.com/i/G4", "HTTP://Z.COM/i/G5",
   "ftp://z.com/i/G6", "httpd-kit/i/G7", "//cdn.z.com/i/G8", "mailto:a-z.com"}

InitPure ==
  /\ Idle
  /\ results = <<>>
  /\ html = NoneHtml
  /\ out = <<>>
  /\ \/ /\ pc = "s_score"
        /\ \E q \in ScoreStrings, t \in ScoreStrings :
             arg = [NoArg EXCEPT !.item_name = q, !.candidate = t]
     \/ /\ pc = "s_url"
        /\ \E href \in Hrefs : arg = [NoArg EXCEPT !.href = href]

\* best_score(query, candidate)
ScoreCall ==
  /\ pc = "s_score"
  /\ out' = <<best_score(arg.item_name, arg.candidate)>>
  /\ pc' = "s_scored"
  /\ UNCHANGED <<mainVars, html, attempt, pw, sessions, loaded, exc, calls, pwret, g, arg>>

\* lines 416-417 for one href
UrlCall ==
  /\ pc = "s_url"
  /\ out' = <<url_of(arg.href)>>
  /\ pc' = "s_urled"
  /\ UNCHANGED <<mainVars, html, attempt, pw, sessions, loaded, exc, calls, pwret, g, arg>>

NextPure == ScoreCall \/ UrlCall

SpecPure == InitPure /\ [][NextPure]_vars

\* =====================================================================
\* Properties
\* =====================================================================
Prefix(seq, n) == SubSeq(seq, 1, Min2(n, Len(seq)))

IsSentinel(row) ==
  /\ row.title = "Not found" /\ row.match_score = 0
  /\ row.url = "" /\ row.price = "" /\ row.sku = "" /\ row.brand = ""
  /\ row.image_url = "" /\ row.image_path = ""

RowsOf(term) == LET T(row) == row.search_term = term IN SelectSeq(all_results, T)

Finished == pc \in {"done", "aborted"}

\* C1: search_zoro calls the browser backend first and the plain-HTTP
\* backend only when the browser backend returned None or an empty string;
\* when the browser backend returned any non-empty content, the plain-HTTP
\* backend is not called and that content is the one used.
C1_FetchOrder ==
  /\ Len(calls) >= 1 => calls[1] = "playwright"
  /\ pc = "searched" =>
       \/ calls = <<"playwright">> /\ Truthy(pwret) /\ html = pwret
       \/ calls = <<"playwright", "requests">> /\ ~Truthy(pwret)

C1_Witness == pc = "searched" /\ calls = <<"playwright">> /\ Truthy(pwret) /\ pwret.units = <<>>

\* C2: when the run is over, every input query has at least one row: either
\* exactly one sentinel row, or only rows of accepted candidates.
C2_EveryQueryHasRow ==
  Finished =>
    \A k \in 1..Len(Items) :
      LET rows == RowsOf(Items[k])
      IN /\ Len(rows) >= 1
         /\ \/ Len(rows) = 1 /\ IsSentinel(rows[1])
            \/ \A n \in 1..Len(rows) : ~IsSentinel(rows[n])

\* C3: search_zoro returns at most MAX_RESULTS_PER_ITEM records, each with
\* a match_score of at least FUZZY_MATCH_THRESHOLD.
C3_CapAndThreshold ==
  pc = "s_searched" =>
    /\ Len(results) <= MAX_RESULTS_PER_ITEM
    /\ \A k \in 1..Len(results) : results[k].match_score >= FUZZY_MATCH_THRESHOLD

\* the score of a card's title for a query
ScoreOf(term, u) == ScoreTable[term][title_of(u)]

PassingCards(term, units) ==
  LET T(u) == ScoreOf(term, u) >= FUZZY_MATCH_THRESHOLD
  IN SelectSeq(select_cards(units).cards, T)

C3_Witness ==
  /\ pc = "s_searched"
  /\ Len(results) = MAX_RESULTS_PER_ITEM
  /\ Len(PassingCards(arg.item_name, html.units)) > MAX_RESULTS_PER_ITEM
  /\ \E k \in 1..Len(html.units) :
       ScoreOf(arg.item_name, html.units[k]) < FUZZY_MATCH_THRESHOLD

\* the record search_zoro builds for a card of the winning rule
RecordOf(term, units, u) ==
  ProductResult(term, raw_of(u, select_cards(units).card_source),
                ScoreOf(term, u))

RecordsOf(term, units, cards) == [k \in 1..Len(cards) |-> RecordOf(term, units, cards[k])]

\* the cards of the winning rule that yield a title or a url
Extractable(units) ==
  LET T(u) == title_of(u) # "" \/ url_of(u.href) # ""
  IN SelectSeq(select_cards(units).cards, T)

PassingOf(term, cards) ==
  LET T(u) == ScoreOf(term, u) >= FUZZY_MATCH_THRESHOLD
  IN SelectSeq(cards, T)

\* C4 as stated: the records returned are the first min(cap, k) of all the
\* candidates of the winning rule on the page that meet the threshold, in
\* document order; no results only when no candidate meets the threshold.
C4_FirstOfAllPassing ==
  pc = "s_searched" =>
    results = RecordsOf(arg.item_name, html.units,
                Prefix(PassingOf(arg.item_name, Extractable(html.units)),
                       MAX_RESULTS_PER_ITEM))

\* C4 amended: the records returned are the first min(cap, k) of the
\* candidates that meet the threshold among the first 2 * cap candidates
\* of the winning rule that yield a title or a url, in document order.
C4_FirstOfWindowPassing ==
  pc = "s_searched" =>
    results = RecordsOf(arg.item_name, html.units,
                Prefix(PassingOf(arg.item_name,
                                 Prefix(Extractable(html.units), 2 * MAX_RESULTS_PER_ITEM)),
                       MAX_RESULTS_PER_ITEM))

C4_Witness ==
  /\ pc = "s_searched"
  /\ Len(Extractable(html.units)) > 2 * MAX_RESULTS_PER_ITEM
  /\ Len(results) \in 1..(MAX_RESULTS_PER_ITEM - 1)
  /\ Len(PassingOf(arg.item_name, Extractable(html.units))) > Len(results)

\* C5: whatever fails during one query, main goes through every query,
\* has at least one row for each of them, and calls save_to_excel.
C5_RunCompletes ==
  Finished =>
    /\ i > Len(Items)
    /\ saved # "no"
    /\ \A k \in 1..Len(Items) : Len(RowsOf(Items[k])) >= 1

\* the current call of fetch_html_with_playwright ran its loop to the end
Exhausted == pc = "pw_return" /\ pw.page /\ ~g.ready

\* C6: when the first k content checks of a call found a challenge marker
\* (k < 6) and the next check found none and a structural marker, the call
\* has paused for one cooldown per challenged capture, loaded the page once
\* by goto and then only by reload, and returns content captured during the
\* attempt of that last check.
C6_ChallengedThenReady ==
  (pc = "pw_return" /\ g.ready /\ g.clean /\ ~g.dirty /\ g.nchal < max_attempts) =>
    /\ g.cool10 = g.nchal
    /\ g.gotos = 1
    /\ g.reloads = attempt - 1
    /\ attempt >= g.nchal + 1
    /\ Truthy(html)
    /\ g.capAt = attempt

C6_Witness ==
  /\ pc = "pw_return" /\ g.ready /\ g.clean /\ ~g.dirty
  /\ g.nchal = 2 /\ attempt = 3 /\ g.capAt = 3

\* C7 as stated: the call makes at most 6 load attempts, and when the
\* attempts are used up it returns the content that was last captured (a
\* capture discarded as challenged counts as nothing), or None if there is
\* none.
C7_ReturnsLastCaptured ==
  /\ g.gotos + g.reloads <= max_attempts
  /\ Exhausted => html = g.kept

\* C7 amended: the call makes at most 6 load attempts, and when the
\* attempts are used up it returns the content that was last captured,
\* except that it returns None when the first capture of the latest loaded
\* attempt raised and nothing was captured after it.
C7_BoundedAttempts ==
  /\ g.gotos + g.reloads <= max_attempts
  /\ attempt <= max_attempts + 1
  /\ Exhausted => attempt = max_attempts + 1
  /\ Exhausted => html = IF g.capErr THEN NoneHtml ELSE g.kept

C7_Witness ==
  /\ Exhausted
  /\ g.gotos + g.reloads = max_attempts
  /\ g.capErr /\ Truthy(g.kept) /\ html = NoneHtml

RECURSIVE ExpectedCooldowns(_, _)
\* cooldowns owed for the rows: one for every third sentinel row in a row
\* since the last row of a product or the last cooldown
ExpectedCooldowns(rows, run) ==
  IF Len(rows) = 0 THEN 0
  ELSE IF ~IsSentinel(rows[1]) THEN ExpectedCooldowns(Tail(rows), 0)
  ELSE IF run + 1 = 3 THEN 1 + ExpectedCooldowns(Tail(rows), 0)
  ELSE ExpectedCooldowns(Tail(rows), run + 1)

RECURSIVE TrailingFailures(_)
\* sentinel rows at the end of the rows
TrailingFailures(rows) ==
  IF Len(rows) = 0 \/ ~IsSentinel(rows[Len(rows)]) THEN 0
  ELSE 1 + TrailingFailures(SubSeq(rows, 1, Len(rows) - 1))

\* C8: whenever a query starts (or the loop ends), the cooldown has been
\* taken once for every three consecutive queries without results since
\* the last query with results or the last cooldown, and the counter is
\* the number of such queries since then: 0, 1 or 2.
C8_Cooldown ==
  pc = "loop" =>
    /\ consecutive_failures \in {0, 1, 2}
    /\ h.cool60 = ExpectedCooldowns(all_results, 0)
    /\ consecutive_failures = TrailingFailures(all_results) % 3
    /\ (Len(all_results) > 0 /\ ~IsSentinel(Last(all_results))) => consecutive_failures = 0

C8_Witness ==
  /\ pc = "loop" /\ i = 4
  /\ h.cool60 = 1 /\ consecutive_failures = 0
  /\ \A k \in 1..3 : IsSentinel(all_results[k])

\* C9: when both backends returned nothing for a query, search_zoro
\* returns an empty list without raising, main appends the sentinel row
\* for the query and goes on to the next query.
C9_SoftFailure ==
  [][/\ (pc = "searched" /\ ~Truthy(pwret) /\ ~Truthy(html)) =>
          /\ calls = <<"playwright", "requests">>
          /\ results' = <<>>
          /\ Len(all_results') = Len(all_results) + 1
          /\ IsSentinel(Last(all_results'))
          /\ Last(all_results').search_term = Items[i]
          /\ pc' = "tail" /\ exc' = FALSE
     /\ (pc = "tail" /\ h.nocontent) =>
          /\ pc' = "loop" /\ i' = i + 1 /\ exc' = FALSE
          /\ all_results' = all_results]_vars

C9_Witness ==
  /\ pc = "pw_load" /\ i = 2 /\ h.nocontent
  /\ Len(all_results) = 1 /\ IsSentinel(all_results[1])

Rule1(u) == IsAnchor(u) /\ u.card

Rule2(u) == IsAnchor(u) /\ u.tmarks > 0

Rule3(u) == IsAnchor(u) /\ Contains(u.href, "/i/")

Some(units, R(_)) == \E k \in 1..Len(units) : R(units[k])

\* the units of the page matched by the first rule that matches any, as
\* records of that rule, without those that yield neither title nor url
WinnerRecords(units) ==
  LET Keep(r) == r.title # "" \/ r.url # ""
      Of(R(_), name) ==
        LET sel == SelectSeq(units, R)
        IN SelectSeq([k \in 1..Len(sel) |-> raw_of(sel[k], name)], Keep)
  IN IF Some(units, Rule1) THEN Of(Rule1, "data-test-productCard")
     ELSE IF Some(units, Rule2) THEN Of(Rule2, "productCardTitle")
     ELSE IF Some(units, Rule3) THEN Of(Rule3, "generic-anchor")
     ELSE <<>>

\* C10: the candidates parse_product_data returns all come from the first
\* of the three rules (product cards, title markers, generic anchors) that
\* matches anything on the page: they are the leading matches of that rule,
\* in document order, and all carry that rule as their source.
C10_FirstRuleWins ==
  pc = "s_parsed" =>
    /\ \E n \in 0..Len(WinnerRecords(html.units)) :
         out = SubSeq(WinnerRecords(html.units), 1, n)
    /\ \A k \in 1..Len(out) : out[k].source = out[1].source

C10_Witness ==
  /\ pc = "s_parsed"
  /\ ~Some(html.units, Rule1) /\ Some(html.units, Rule2) /\ Some(html.units, Rule3)
  /\ \E k \in 1..Len(html.units) : Rule3(html.units[k]) /\ ~Rule2(html.units[k])
  /\ Len(out) >= 1 /\ out[1].source = "productCardTitle"

\* C11: for every page and every max_results, 0 included, parse_product_data
\* returns at most max_results candidates: the leading max_results of the
\* candidates of the winning rule that yield a title or a url.
C11_AtMostMaxRecords ==
  pc = "s_parsed" =>
    /\ Len(out) <= arg.max_results
    /\ out = Prefix(WinnerRecords(html.units), arg.max_results)

\* C12: every candidate parse_product_data returns and every record
\* search_zoro returns has a title or a url; a matched unit with neither is
\* dropped and does not count towards max_results, so the candidates
\* returned are the leading ones among the matched units that have either.
C12_TitleOrUrl ==
  /\ pc = "s_parsed" =>
       /\ \A k \in 1..Len(out) : out[k].title # "" \/ out[k].url # ""
       /\ \E n \in 0..Len(WinnerRecords(html.units)) :
            /\ out = SubSeq(WinnerRecords(html.units), 1, n)
            /\ n = Len(WinnerRecords(html.units)) \/ n >= arg.max_results
  /\ pc = "s_searched" =>
       \A k \in 1..Len(results) : results[k].title # "" \/ results[k].url # ""

C12_Witness ==
  /\ pc = "s_parsed" /\ arg.max_results = 2
  /\ Len(html.units) = 3 /\ html.units[1] = CardBare
  /\ Len(out) = 2

\* C13: for each query the fetch chain tries the rendering proxy first, the
\* browser only when the proxy returned no content, and the plain HTTP GET
\* last.
C13_ProxyFirst ==
  /\ Len(calls) >= 1 => calls[1] = "scrapingbee"
  /\ \A k \in 1..Len(calls) : calls[k] = "playwright" => k = 2
  /\ \A k \in 1..Len(calls) : calls[k] = "requests" => k = 3

\* download_image returned path p to main's loop
Returned(p) ==
  /\ pc' \in {"image", "tail"}
  /\ Len(all_results') = Len(all_results) + 1
  /\ Last(all_results').image_path = p

\* C14: a call of download_image whose target exists issues no GET, leaves
\* the files as they are and returns the path of the target; a call that
\* issued the GET either returns the path, with the file in place, or
\* returns the empty path, with no file at the target.
C14_Idempotent ==
  [][(pc = "image" /\ product.image_url # "") =>
       IF file_path \in files
       THEN files' = files /\ ~h'.imgfetch /\ Returned(file_path)
       ELSE h'.imgfetch =>
              \/ Returned(file_path) /\ file_path \in files'
              \/ Returned("") /\ file_path \notin files']_vars

\* C16: at most one persistent browser context is open at any point of a run.
C16_AtMostOneSession == sessions <= 1

C18_PacedBetweenQueries ==
  /\ pc \in {"loop", "pw_load", "pw_check", "pw_wait", "pw_return", "searched",
              "image", "tail"} => h.paces = i - 1
  /\ h.paces >= h.cool60

C18_Witness ==
  /\ pc = "pw_load" /\ attempt = 1 /\ i = 3 /\ h.paces = 2
  /\ IsSentinel(all_results[1]) /\ ~IsSentinel(Last(all_results))

\* C20: non-empty content that fetch_html_with_playwright returns for the
\* URL of a query was captured from a page loaded from that URL.
C20_ContentOfThisQuery ==
  (pc = "pw_return" /\ Truthy(html)) => html.q = i


Alnum == "abcdefghijklmnopqrstuvwxyz0123456789"

RECURSIVE Unpunct(_)
\* every character that is no letter and no digit replaced by a blank
Unpunct(s) ==
  IF Len(s) = 0 THEN ""
  ELSE (IF IndexIn(Ch(s, 1), Alnum) # 0 THEN Ch(s, 1) ELSE " ")
         \o Unpunct(SubSeq(s, 2, Len(s)))

\* the case- and punctuation-normalized token content of a string
Normalized(s) == Join(Split(Unpunct(Lower(s))))

\* the values of best_score on the strings of the direct calls
Scores == [q \in ScoreStrings |-> [t \in ScoreStrings |-> best_score(q, t)]]

SameScore(a, b) == a.n * b.d = b.n * a.d

\* C15: best_score depends only on the normalized token content of its
\* arguments (pairs equal after normalization get the same score, and two
\* strings with the same normalized content score 100), and the score is an
\* integer in [0, 100], 0 when either string is empty.
C15_NormalizedInteger ==
  pc = "s_scored" =>
    /\ out[1].n % out[1].d = 0
    /\ 0 <= out[1].n /\ out[1].n <= 100 * out[1].d
    /\ (arg.item_name = "" \/ arg.candidate = "") => out[1].n = 0
    /\ \A q \in ScoreStrings, t \in ScoreStrings :
         (Normalized(q) = Normalized(arg.item_name)
            /\ Normalized(t) = Normalized(arg.candidate))
           => SameScore(Scores[q][t], out[1])

\* a reference with a scheme: letters, digits, "+", "-" and "." up to a colon
IsAbsoluteUrl(ref) ==
  \E k \in 2..Len(ref) :
    /\ Ch(ref, k) = ":"
    /\ IndexIn(Ch(Lower(ref), 1), Lowers) # 0
    /\ \A j \in 1..(k - 1) : IndexIn(Ch(Lower(ref), j), Alnum \o "+-.") # 0

\* C19: the url of a candidate is the reference itself when the reference
\* is an absolute URL, BASE_URL followed by the reference when it is
\* non-empty and not absolute, and empty when the reference is empty.
C19_UrlNormalized ==
  pc = "s_urled" =>
    out[1] = IF IsAbsoluteUrl(arg.href) THEN arg.href
             ELSE IF arg.href # "" THEN BASE_URL \o arg.href
             ELSE ""

\* C21: non-empty content that fetch_html_with_playwright returns holds no
\* challenge marker, the content captured again after the selector waits
\* included.
C21_NoChallengeReturned ==
  (pc = "pw_return" /\ Truthy(html)) => ~challenge_present(html)

\* C22: in one run no two rows carry the same image file: rows of different
\* queries, and rows of different ranks of one query, have different image
\* base names, so the image of a row was downloaded for that row.
C22_DistinctImageNames ==
  \A k \in 1..Len(all_results), n \in 1..Len(all_results) :
    (k < n /\ all_results[k].image_path # "")
      => all_results[k].image_path # all_results[n].image_path

====
